---------------------------- MODULE Spec2Model ----------------------------
(***************************************************************************)
(* RFM segmentation service (src/app.py).                                  *)
(*                                                                         *)
(* One request (index) runs preprocess_data and then create_plots on the   *)
(* table read from rfm_data.csv.  The model follows the table through the  *)
(* statements of both functions; pandas operations (to_datetime, groupby,  *)
(* merge, cut, astype, value_counts, sample) are modelled by what they do  *)
(* to the table.                                                           *)
(*                                                                         *)
(* Encodings.  A CSV PurchaseDate cell is <<"ymd", d>> (text that parses   *)
(* to day number d) or <<"junk">> (text that does not parse).  A parsed    *)
(* date is <<d>> or NaT == << >>; a Recency is <<r>> or NaN == << >>.      *)
(* Amounts and day numbers are integers, so sums and bin edges are exact.  *)
(***************************************************************************)
EXTENDS Integers, Sequences, FiniteSets

VARIABLES
    csv,     \* rfm_data.csv, the table read at line 13
    today,   \* the wall-clock date, datetime.now().date() at line 19
    pc,      \* where the request in progress stands ("idle" between requests)
    data,    \* the DataFrame data of preprocess_data and create_plots
    charts,  \* what the four figures of create_plots show, once computed
    last     \* history: evaluation date, table and charts of the request
             \* served last

vars == <<csv, today, pc, data, charts, last>>

---------------------------------------------------------------------------
(* Bounds of the explored inputs. *)

MaxRows == 3
MaxSingles == 10
MaxTail == 2

(* The values the cells of the input are drawn from.  The days are spaced
   so that a Recency range of 5 occurs together with values that lie
   exactly on an interior edge of its five equal bins. *)
CustomerIDs == {1, 2}
PurchaseDays == {0, 1, 3, 5}
Amounts == {0, 1}

---------------------------------------------------------------------------
(* Input tables. *)

NaT == << >>
NaN == << >>
None == << >>

DateCells == {<<"junk">>} \cup {<<"ymd", d>> : d \in PurchaseDays}

RawRows == [CustomerID : CustomerIDs, PurchaseDate : DateCells,
            TransactionAmount : Amounts]

RawTables(n) == UNION {[1..k -> RawRows] : k \in 0..n}

(* One-time buyers: n customers with fresh ids, one order each on day 0 of
   amount 0. *)
Singles(n) == [i \in 1..n |-> [CustomerID |-> 100 + i,
                               PurchaseDate |-> <<"ymd", 0>>,
                               TransactionAmount |-> 0]]

(* Every row is one order and carries its own OrderID. *)
WithOrderIDs(t) == [i \in 1..Len(t) |->
    [CustomerID |-> t[i].CustomerID, OrderID |-> i,
     PurchaseDate |-> t[i].PurchaseDate,
     TransactionAmount |-> t[i].TransactionAmount]]

SmallTables == {WithOrderIDs(t) : t \in RawTables(MaxRows)}

BulkTables == {WithOrderIDs(Singles(n) \o t) :
                  n \in 0..MaxSingles, t \in RawTables(MaxTail)}

---------------------------------------------------------------------------
(* Helpers on sets and sequences of integers. *)

RECURSIVE SumOver(_, _)
SumOver(S, f) ==
    IF S = {} THEN 0
    ELSE LET i == CHOOSE x \in S : TRUE IN f[i] + SumOver(S \ {i}, f)

Min(S) == CHOOSE x \in S : \A y \in S : x <= y
Max(S) == CHOOSE x \in S : \A y \in S : x >= y

Rows(d) == 1..Len(d)

(* The evaluation date of the first request: the day of the latest
   purchase. *)
FirstDay == Max(PurchaseDays)

(* The days on which requests are served. *)
EvaluationDays == {FirstDay, FirstDay + 1}


---------------------------------------------------------------------------
(* preprocess_data: metrics (lines 13-29). *)

(* pd.to_datetime(..., errors='coerce'): text that does not parse becomes
   NaT instead of raising. *)
ToDatetime(cell) == IF cell[1] = "ymd" THEN <<cell[2]>> ELSE NaT

(* (datetime.now().date() - PurchaseDate).days; a missing date gives a
   missing Recency. *)
RecencyOf(now, date) == IF date = NaT THEN NaN ELSE <<now - date[1]>>

Customers(t) == {t[i].CustomerID : i \in Rows(t)}

(* groupby('CustomerID')['OrderID'].count(): the number of the customer's
   rows that hold an OrderID (rows, not distinct OrderIDs); every row of the
   input holds one. *)
FrequencyData(t) ==
    [c \in Customers(t) |->
        Cardinality({j \in Rows(t) : t[j].CustomerID = c /\ t[j].OrderID \in Int})]

(* Mutant: .count() where line 27 has .sum(). *)
MonetaryData_Count(t) ==
    [c \in Customers(t) |->
        Cardinality({j \in Rows(t) : t[j].CustomerID = c})]

(* groupby('CustomerID')['TransactionAmount'].sum() *)
MonetaryData(t) ==
    [c \in Customers(t) |->
        SumOver({j \in Rows(t) : t[j].CustomerID = c},
                [j \in Rows(t) |-> t[j].TransactionAmount])]

(* data.merge(grouped, on='CustomerID', how='left'): the grouped table has
   one row per customer, so every left row is kept once, in order, with its
   customer's value. *)
MergeLeft(t, grouped) == [i \in Rows(t) |-> grouped[t[i].CustomerID]]

Metrics(t, now) ==
    LET freq == MergeLeft(t, FrequencyData(t))
        mon == MergeLeft(t, MonetaryData(t))
    IN [i \in Rows(t) |->
          [CustomerID |-> t[i].CustomerID,
           OrderID |-> t[i].OrderID,
           PurchaseDate |-> ToDatetime(t[i].PurchaseDate),
           TransactionAmount |-> t[i].TransactionAmount,
           Recency |-> RecencyOf(now, ToDatetime(t[i].PurchaseDate)),
           Frequency |-> freq[i],
           MonetaryValue |-> mon[i]]]

---------------------------------------------------------------------------
(* preprocess_data: scores (lines 31-47). *)

recency_scores == <<5, 4, 3, 2, 1>>
frequency_scores == <<1, 2, 3, 4, 5>>
(* Mutant: labels numbered from 0. *)
monetary_scores_FromZero == <<0, 1, 2, 3, 4>>

monetary_scores == <<1, 2, 3, 4, 5>>

(* Mutant: pd.cut(..., right=False), intervals [edge k, edge k+1) with the
   last edge raised so that mx falls in the last interval. *)
CutIndex_LeftClosed(mn, mx, v, n) ==
    IF mn = mx THEN (n - 1) \div 2
    ELSE IF v = mx THEN n - 1
    ELSE (n * (v - mn)) \div (mx - mn)

(* pd.cut(x, bins=n) with the default right=True.  For mn < mx the edges
   are mn + k*(mx-mn)/n, the intervals are (edge k, edge k+1], and the
   first edge is lowered by 0.1% of the range so that mn falls in interval
   0.  For mn = mx the range is widened by 0.1% on both sides first, and the
   value lies in the middle of it. *)
CutIndex(mn, mx, v, n) ==
    IF mn = mx THEN (n - 1) \div 2
    ELSE IF v = mn THEN 0
    ELSE (n * (v - mn) - 1) \div (mx - mn)

(* pd.cut(column, bins=Len(labels), labels=labels) at value v. *)
Cut(column, v, labels) ==
    labels[CutIndex(Min(column), Max(column), v, Len(labels)) + 1]

RecencyColumn(d) == {d[i].Recency[1] : i \in {j \in Rows(d) : d[j].Recency # NaN}}
FrequencyColumn(d) == {d[i].Frequency : i \in Rows(d)}
MonetaryColumn(d) == {d[i].MonetaryValue : i \in Rows(d)}

(* pd.cut raises on an empty column ("Cannot cut empty array"); a missing
   Recency gets no category, and astype(int) raises on it (line 42). *)
ScoringRaises(d) == Len(d) = 0 \/ \E i \in Rows(d) : d[i].Recency = NaN

RecencyScoreOf(d, i) == Cut(RecencyColumn(d), d[i].Recency[1], recency_scores)
FrequencyScoreOf(d, i) == Cut(FrequencyColumn(d), d[i].Frequency, frequency_scores)
MonetaryScoreOf(d, i) == Cut(MonetaryColumn(d), d[i].MonetaryValue, monetary_scores)

(* line 47 *)
RFMScoreOf(r, f, m) == r + f + m

Scored(d) ==
    [i \in Rows(d) |->
        LET r == RecencyScoreOf(d, i)
            f == FrequencyScoreOf(d, i)
            m == MonetaryScoreOf(d, i)
        IN [CustomerID |-> d[i].CustomerID,
            OrderID |-> d[i].OrderID,
            PurchaseDate |-> d[i].PurchaseDate,
            TransactionAmount |-> d[i].TransactionAmount,
            Recency |-> d[i].Recency,
            Frequency |-> d[i].Frequency,
            MonetaryValue |-> d[i].MonetaryValue,
            RecencyScore |-> r,
            FrequencyScore |-> f,
            MonetaryScore |-> m,
            RFM_Score |-> RFMScoreOf(r, f, m)]]

---------------------------------------------------------------------------
(* preprocess_data: segments (lines 49-61). *)

segment_labels == <<"Low-Value", "Mid-Value", "High-Value">>

ScoreColumn(d) == {d[i].RFM_Score : i \in Rows(d)}

ValueSegmentOf(d, i) == Cut(ScoreColumn(d), d[i].RFM_Score, segment_labels)

(* Mutant: the Champions mask with > where line 55 has >=. *)
CustomerSegmentOf_Above9(score) ==
    LET s0 == ""
        s1 == IF score > 9 THEN "Champions" ELSE s0
        s2 == IF score >= 6 /\ score < 9 THEN "Potential Loyalists" ELSE s1
        s3 == IF score >= 5 /\ score < 6 THEN "At Risk Customers" ELSE s2
        s4 == IF score >= 4 /\ score < 5 THEN "Can't Lose" ELSE s3
        s5 == IF score >= 3 /\ score < 4 THEN "Lost" ELSE s4
    IN s5

(* Lines 54-59: the column starts empty and five .loc assignments follow in
   this order, each overwriting the rows its mask selects. *)
CustomerSegmentOf(score) ==
    LET s0 == ""
        s1 == IF score >= 9 THEN "Champions" ELSE s0
        s2 == IF score >= 6 /\ score < 9 THEN "Potential Loyalists" ELSE s1
        s3 == IF score >= 5 /\ score < 6 THEN "At Risk Customers" ELSE s2
        s4 == IF score >= 4 /\ score < 5 THEN "Can't Lose" ELSE s3
        s5 == IF score >= 3 /\ score < 4 THEN "Lost" ELSE s4
    IN s5

Segmented(d) ==
    [i \in Rows(d) |->
        [CustomerID |-> d[i].CustomerID,
         OrderID |-> d[i].OrderID,
         PurchaseDate |-> d[i].PurchaseDate,
         TransactionAmount |-> d[i].TransactionAmount,
         Recency |-> d[i].Recency,
         Frequency |-> d[i].Frequency,
         MonetaryValue |-> d[i].MonetaryValue,
         RecencyScore |-> d[i].RecencyScore,
         FrequencyScore |-> d[i].FrequencyScore,
         MonetaryScore |-> d[i].MonetaryScore,
         RFM_Score |-> d[i].RFM_Score,
         ValueSegment |-> ValueSegmentOf(d, i),
         CustomerSegment |-> CustomerSegmentOf(d[i].RFM_Score)]]

---------------------------------------------------------------------------
(* create_plots (lines 66-112). *)

(* Series.value_counts(): each value that occurs, with its number of rows. *)
ValueCounts(col) ==
    [v \in {col[i] : i \in DOMAIN col} |->
        Cardinality({i \in DOMAIN col : col[i] = v})]

CustomerSegmentColumn(d) == [i \in Rows(d) |-> d[i].CustomerSegment]

Labels(labels) == {labels[k] : k \in DOMAIN labels}

(* line 70: value_counts() of the categorical column that pd.cut returned
   lists every category, also one no row has. *)
ValueSegmentCounts(d) ==
    [v \in Labels(segment_labels) |->
        Cardinality({i \in Rows(d) : d[i].ValueSegment = v})]

(* line 76 *)
SegmentCounts(d) == ValueCounts(CustomerSegmentColumn(d))

(* line 89: groupby('RFM Customer Segments')[scores].mean(); a mean is kept
   as <<sum, count>>. *)
SegmentScores(d) ==
    [s \in {d[i].CustomerSegment : i \in Rows(d)} |->
        LET g == {i \in Rows(d) : d[i].CustomerSegment = s}
        IN [RecencyScore |-> <<SumOver(g, [i \in Rows(d) |-> d[i].RecencyScore]),
                               Cardinality(g)>>,
            FrequencyScore |-> <<SumOver(g, [i \in Rows(d) |-> d[i].FrequencyScore]),
                                 Cardinality(g)>>,
            MonetaryScore |-> <<SumOver(g, [i \in Rows(d) |-> d[i].MonetaryScore]),
                                Cardinality(g)>>]]

(* line 101: reactivation_rate = 0.2, as numerator and denominator. *)
reactivation_rate == <<1, 5>>

(* line 102: the index labels of the Lost rows, in table order. *)
RECURSIVE LostFrom(_, _)
LostFrom(d, i) ==
    IF i > Len(d) THEN << >>
    ELSE IF d[i].CustomerSegment = "Lost" THEN <<i>> \o LostFrom(d, i + 1)
    ELSE LostFrom(d, i + 1)

(* Mutant: the sample is drawn from the whole table. *)
lost_customers_AllRows(d) == [i \in Rows(d) |-> i]

lost_customers(d) == LostFrom(d, 1)

(* Mutant: int(frac * len), rounding down. *)
SampleSize_RoundedDown(n, frac) == (frac[1] * n) \div frac[2]

(* DataFrame.sample(frac=...) draws round(frac * len) rows; Python's round
   goes to the nearest integer, a tie to the even one. *)
SampleSize(n, frac) ==
    LET q == (frac[1] * n) \div frac[2]
        r == (frac[1] * n) % frac[2]
    IN IF 2 * r < frac[2] THEN q
       ELSE IF 2 * r > frac[2] THEN q + 1
       ELSE IF q % 2 = 0 THEN q ELSE q + 1

(* sample(random_state=1) takes the head of
   numpy.random.RandomState(1).permutation(n): the Mersenne Twister seeded
   with 1, shuffled from the last position down.  The positions drawn
   (1-based) for each n, in drawing order. *)
SeededDraw ==
    [n \in 0..16 |->
        CASE n \in 0..2 -> << >>
          [] n = 3 -> <<1>>
          [] n = 4 -> <<4>>
          [] n = 5 -> <<3>>
          [] n = 6 -> <<3>>
          [] n = 7 -> <<7>>
          [] n = 8 -> <<8, 3>>
          [] n = 9 -> <<9, 3>>
          [] n = 10 -> <<3, 10>>
          [] n = 11 -> <<3, 4>>
          [] n = 12 -> <<3, 4>>
          [] n = 13 -> <<3, 4, 5>>
          [] n = 14 -> <<4, 8, 7>>
          [] n = 15 -> <<4, 8, 7>>
          [] n = 16 -> <<4, 14, 8>>]

(* Mutant: no random_state, so any rows of the frame may be drawn. *)
Sample_Unseeded(frame, frac) ==
    LET n == Len(frame)
        k == SampleSize(n, frac)
    IN {S \in SUBSET {frame[j] : j \in 1..n} : Cardinality(S) = k}

(* line 103: the samples the call can return for this frame (as sets of
   index labels); the fixed random_state leaves one. *)
Sample(frame, frac) ==
    LET n == Len(frame)
        k == SampleSize(n, frac)
    IN {{frame[SeededDraw[n][j]] : j \in 1..k}}

(* line 104: data.loc[index, 'RFM Customer Segments'] = 'Potential Loyalists' *)
Relabel(d, index) ==
    [i \in Rows(d) |->
        IF i \in index
        THEN [d[i] EXCEPT !.CustomerSegment = "Potential Loyalists"]
        ELSE d[i]]

(* Mutant: the counts taken before line 104 has relabeled the sample. *)
NewSegmentCounts_BeforePass(d) ==
    ValueCounts([i \in Rows(d) |-> CustomerSegmentOf(d[i].RFM_Score)])

(* line 105 *)
NewSegmentCounts(d) == ValueCounts(CustomerSegmentColumn(d))

---------------------------------------------------------------------------
(* The request handler (index, lines 114-151) as a state machine. *)

NoCharts == [segment_dist |-> None, rfm_segments |-> None,
             segment_scores |-> None, new_segment_dist |-> None]

InitRest ==
    /\ today = FirstDay
    /\ pc = "idle"
    /\ data = << >>
    /\ charts = NoCharts
    /\ last = None

Init == csv \in SmallTables /\ InitRest

InitBulk == csv \in BulkTables /\ InitRest

(* The wall clock moves on between requests. *)
Tick ==
    /\ pc = "idle"
    /\ today + 1 \in EvaluationDays
    /\ today' = today + 1
    /\ UNCHANGED <<csv, pc, data, charts, last>>

(* Lines 13-29.  today is datetime.now().date() at line 19. *)
ComputeMetrics ==
    /\ pc = "idle"
    /\ data' = Metrics(csv, today)
    /\ pc' = "metrics"
    /\ UNCHANGED <<csv, today, charts, last>>

(* Line 19 on a pandas build where date - NaT is a float NaN: the lambda's
   x.days raises on it. *)
RecencyRaises ==
    /\ pc = "idle"
    /\ \E i \in Rows(csv) : ToDatetime(csv[i].PurchaseDate) = NaT
    /\ pc' = "error"
    /\ UNCHANGED <<csv, today, data, charts, last>>

(* Lines 31-47. *)
ComputeScores ==
    /\ pc = "metrics"
    /\ ~ScoringRaises(data)
    /\ data' = Scored(data)
    /\ pc' = "scored"
    /\ UNCHANGED <<csv, today, charts, last>>

ScoresRaise ==
    /\ pc = "metrics"
    /\ ScoringRaises(data)
    /\ pc' = "error"
    /\ UNCHANGED <<csv, today, data, charts, last>>

(* Lines 49-61; preprocess_data returns. *)
ComputeSegments ==
    /\ pc = "scored"
    /\ data' = Segmented(data)
    /\ pc' = "segmented"
    /\ UNCHANGED <<csv, today, charts, last>>

(* Lines 70-98: the first three figures. *)
PlotSegments ==
    /\ pc = "segmented"
    /\ charts' = [charts EXCEPT !.segment_dist = <<ValueSegmentCounts(data)>>,
                                !.rfm_segments = <<SegmentCounts(data)>>,
                                !.segment_scores = <<SegmentScores(data)>>]
    /\ pc' = "plotted"
    /\ UNCHANGED <<csv, today, data, last>>

(* Lines 101-104. *)
Reengage ==
    /\ pc = "plotted"
    /\ \E reactivated \in Sample(lost_customers(data), reactivation_rate) :
          data' = Relabel(data, reactivated)
    /\ pc' = "reengaged"
    /\ UNCHANGED <<csv, today, charts, last>>

(* Lines 105-112. *)
PlotNewDistribution ==
    /\ pc = "reengaged"
    /\ charts' = [charts EXCEPT !.new_segment_dist = <<NewSegmentCounts(data)>>]
    /\ pc' = "render"
    /\ UNCHANGED <<csv, today, data, last>>

(* Lines 119-151: the page is rendered and the request ends; last records
   the evaluation date and the table of the request just served. *)
Respond ==
    /\ pc = "render"
    /\ last' = <<[today |-> today, data |-> data, charts |-> charts]>>
    /\ data' = << >>
    /\ charts' = NoCharts
    /\ pc' = "idle"
    /\ UNCHANGED <<csv, today>>

(* An exception ends the request with a server error. *)
RespondError ==
    /\ pc = "error"
    /\ data' = << >>
    /\ pc' = "idle"
    /\ UNCHANGED <<csv, today, charts, last>>

Next ==
    \/ Tick
    \/ ComputeMetrics
    \/ RecencyRaises
    \/ ComputeScores
    \/ ScoresRaise
    \/ ComputeSegments
    \/ PlotSegments
    \/ Reengage
    \/ PlotNewDistribution
    \/ Respond
    \/ RespondError

Spec == Init /\ [][Next]_vars

SpecBulk == InitBulk /\ [][Next]_vars

---------------------------------------------------------------------------
(* Properties. *)

(* preprocess_data has returned: the table carries scores and segments. *)
Returned == pc \in {"segmented", "plotted", "reengaged", "render"}

(* The rows carry the three scores and RFM_Score. *)
HasScores == pc = "scored" \/ Returned

JunkRows == {i \in Rows(csv) : csv[i].PurchaseDate = <<"junk">>}

(* C1: after preprocess_data completes, the three scores of every row are
   integers in 1..5, RFM_Score is their sum, and so RFM_Score is in 3..15. *)
C1_ScoresInRange ==
    Returned =>
        \A i \in Rows(data) :
            /\ data[i].RecencyScore \in 1..5
            /\ data[i].FrequencyScore \in 1..5
            /\ data[i].MonetaryScore \in 1..5
            /\ data[i].RFM_Score = data[i].RecencyScore + data[i].FrequencyScore
                                   + data[i].MonetaryScore
            /\ data[i].RFM_Score \in 3..15

(* A returned table holding both the lowest and the highest total. *)
C1_Witness ==
    /\ pc = "segmented"
    /\ \E i, j \in Rows(data) : data[i].RFM_Score = 3 /\ data[j].RFM_Score = 15

(* The segment the thresholds give a score. *)
C2_SegmentOfScore(score) ==
    CASE score >= 9 -> "Champions"
      [] score \in 6..8 -> "Potential Loyalists"
      [] score = 5 -> "At Risk Customers"
      [] score = 4 -> "Can't Lose"
      [] score = 3 -> "Lost"
      [] OTHER -> ""

(* C2: before the re-engagement pass the customer segment of every row is
   the segment its RFM_Score alone determines (>= 9 Champions, 6..8
   Potential Loyalists, 5 At Risk Customers, 4 Can't Lose, 3 Lost), and it
   is never empty. *)
C2_SegmentByScore ==
    pc \in {"segmented", "plotted"} =>
        \A i \in Rows(data) :
            /\ data[i].CustomerSegment = C2_SegmentOfScore(data[i].RFM_Score)
            /\ data[i].CustomerSegment # ""

(* A table, before the pass, with rows on both sides of the 8/9 boundary. *)
C2_Witness ==
    /\ pc = "segmented"
    /\ \E i, j \in Rows(data) :
          /\ data[i].RFM_Score = 9 /\ data[i].CustomerSegment = "Champions"
          /\ data[j].RFM_Score = 8
          /\ data[j].CustomerSegment = "Potential Loyalists"

(* C5: a row whose PurchaseDate does not parse does not make the request
   fail. *)
C5_JunkDateTolerated == JunkRows # {} => pc # "error"

(* The five equal-width intervals over [mn, mx], mn < mx, have the edges
   mn + k*(mx-mn)/5; v is compared with edge k as 5*(v-mn) with k*(mx-mn). *)
C6_OnInteriorEdge(mn, mx, v) ==
    \E k \in 1..4 : 5 * (v - mn) = k * (mx - mn)

(* Intervals closed on the left, the last one closed on the right too. *)
C6_LeftClosedInterval(mn, mx, v) ==
    IF v = mx THEN 4
    ELSE CHOOSE k \in 0..4 :
            /\ k * (mx - mn) <= 5 * (v - mn)
            /\ 5 * (v - mn) < (k + 1) * (mx - mn)

(* Intervals closed on the right, the first one closed on the left too. *)
C6_RightClosedInterval(mn, mx, v) ==
    IF v = mn THEN 0
    ELSE CHOOSE k \in 0..4 :
            /\ k * (mx - mn) < 5 * (v - mn)
            /\ 5 * (v - mn) <= (k + 1) * (mx - mn)

C6_Interval(leftClosed, mn, mx, v) ==
    IF leftClosed THEN C6_LeftClosedInterval(mn, mx, v)
    ELSE C6_RightClosedInterval(mn, mx, v)

(* Every score of a metric with min < max is the label of the interval of
   its value: 5 - k for Recency, k + 1 for Frequency and MonetaryValue. *)
C6_ScoresFollow(leftClosed) ==
    HasScores =>
        LET rmin == Min(RecencyColumn(data))
            rmax == Max(RecencyColumn(data))
            fmin == Min(FrequencyColumn(data))
            fmax == Max(FrequencyColumn(data))
            mmin == Min(MonetaryColumn(data))
            mmax == Max(MonetaryColumn(data))
        IN \A i \in Rows(data) :
            /\ rmin < rmax =>
                 data[i].RecencyScore
                     = 5 - C6_Interval(leftClosed, rmin, rmax, data[i].Recency[1])
            /\ fmin < fmax =>
                 data[i].FrequencyScore
                     = C6_Interval(leftClosed, fmin, fmax, data[i].Frequency) + 1
            /\ mmin < mmax =>
                 data[i].MonetaryScore
                     = C6_Interval(leftClosed, mmin, mmax, data[i].MonetaryValue) + 1

(* C6 as stated: the intervals are closed on the left and open on the
   right, except the last, so a value on interior edge k is in interval k. *)
C6_LeftClosedBins == C6_ScoresFollow(TRUE)

(* C6 as amended: the intervals are open on the left and closed on the
   right, except the first, which also holds the minimum, so a value on
   interior edge k is in interval k - 1; the minimum is in interval 0, the
   maximum in interval 4, and interval k has label 5 - k for Recency and
   k + 1 for Frequency and MonetaryValue. *)
C6_RightClosedBins == C6_ScoresFollow(FALSE)

(* A scored table with a Recency exactly on an interior edge. *)
C6_Witness ==
    /\ pc = "scored"
    /\ \E i \in Rows(data) :
          C6_OnInteriorEdge(Min(RecencyColumn(data)), Max(RecencyColumn(data)),
                            data[i].Recency[1])

(* Some metric has the same value in every row of the input. *)
C7_ConstantMetric ==
    LET m == Metrics(csv, today)
    IN /\ Len(csv) > 0
       /\ \/ Cardinality({m[i].Recency : i \in Rows(m)}) = 1
          \/ Cardinality(FrequencyColumn(m)) = 1
          \/ Cardinality(MonetaryColumn(m)) = 1

C7_Defined ==
    /\ pc # "error"
    /\ Returned =>
         \A i \in Rows(data) :
            /\ data[i].RecencyScore \in 1..5
            /\ data[i].FrequencyScore \in 1..5
            /\ data[i].MonetaryScore \in 1..5
            /\ data[i].RFM_Score \in 3..15
            /\ data[i].ValueSegment \in {"Low-Value", "Mid-Value", "High-Value"}
            /\ data[i].CustomerSegment # ""

(* C7: when a metric is constant across all rows the computation does not
   crash, and every row gets scores in 1..5, an RFM_Score, a Value Segment
   and a non-empty customer segment. *)
C7_ConstantMetricScored == C7_ConstantMetric => C7_Defined

(* The same with every PurchaseDate parseable, where it holds. *)
C7_ConstantMetricScoredIfDatesParse ==
    (C7_ConstantMetric /\ JunkRows = {}) => C7_Defined

(* The customer's orders and their total, counted row by row over the
   first n rows of the input. *)
RECURSIVE C9_OrdersOf(_, _, _)
C9_OrdersOf(t, c, n) ==
    IF n = 0 THEN 0
    ELSE C9_OrdersOf(t, c, n - 1) + (IF t[n].CustomerID = c THEN 1 ELSE 0)

RECURSIVE C9_TotalOf(_, _, _)
C9_TotalOf(t, c, n) ==
    IF n = 0 THEN 0
    ELSE C9_TotalOf(t, c, n - 1)
         + (IF t[n].CustomerID = c THEN t[n].TransactionAmount ELSE 0)

(* C9: after the two join-back steps the table has exactly one row per
   input row, each with its customer's number of input rows as Frequency
   and its customer's summed TransactionAmount as MonetaryValue, so the rows
   of one customer agree on both. *)
C9_JoinBack ==
    pc = "metrics" =>
        /\ Len(data) = Len(csv)
        /\ \A i \in Rows(data) :
              /\ data[i].OrderID = csv[i].OrderID
              /\ data[i].CustomerID = csv[i].CustomerID
              /\ data[i].Frequency = C9_OrdersOf(csv, csv[i].CustomerID, Len(csv))
              /\ data[i].MonetaryValue
                    = C9_TotalOf(csv, csv[i].CustomerID, Len(csv))
        /\ \A i, j \in Rows(data) :
              data[i].CustomerID = data[j].CustomerID =>
                 /\ data[i].Frequency = data[j].Frequency
                 /\ data[i].MonetaryValue = data[j].MonetaryValue

(* A joined table with a customer of two orders of different amounts and a
   second customer. *)
C9_Witness ==
    /\ pc = "metrics"
    /\ \E i, j, k \in Rows(data) :
          /\ i # j
          /\ data[i].CustomerID = data[j].CustomerID
          /\ data[i].TransactionAmount # data[j].TransactionAmount
          /\ data[i].Frequency = 2
          /\ data[k].CustomerID # data[i].CustomerID

Count(d, segment) ==
    Cardinality({i \in Rows(d) : d[i].CustomerSegment = segment})

(* The integer nearest to n / 5. *)
C3_RoundFifth(n) == CHOOSE k \in 0..n : 5 * k - 2 <= n /\ n <= 5 * k + 2

ReengageStep == pc = "plotted" /\ pc' = "reengaged"

(* C3: with N rows labeled Lost before the re-engagement pass, after it
   N - round(0.2 * N) rows are labeled Lost, the Potential Loyalists have
   grown by round(0.2 * N), and the counts of Champions, At Risk Customers
   and Can't Lose are unchanged. *)
C3_LostRelabeled ==
    [][ReengageStep =>
         LET k == C3_RoundFifth(Count(data, "Lost"))
         IN /\ Count(data', "Lost") = Count(data, "Lost") - k
            /\ Count(data', "Potential Loyalists")
                  = Count(data, "Potential Loyalists") + k
            /\ Count(data', "Champions") = Count(data, "Champions")
            /\ Count(data', "At Risk Customers") = Count(data, "At Risk Customers")
            /\ Count(data', "Can't Lose") = Count(data, "Can't Lose")]_vars

(* The rows the pass has relabeled: Potential Loyalists with a score of 3. *)
Reactivated(d) ==
    {i \in Rows(d) : d[i].CustomerSegment = "Potential Loyalists"
                     /\ d[i].RFM_Score = 3}

(* After the pass over 10 Lost rows: 2 relabeled, 8 still Lost. *)
C3_Witness ==
    /\ pc = "reengaged"
    /\ Cardinality(Reactivated(data)) = 2
    /\ Count(data, "Lost") = 8

(* C4: the re-engagement pass changes only the customer segment, and only
   of rows labeled Lost before it: every other field of every row (RFM_Score,
   Value Segment and the three scores among them) is kept, a row not labeled
   Lost keeps its segment, and with no Lost row the table is unchanged. *)
C4_OnlyLostSegmentsChange ==
    [][ReengageStep =>
         /\ Len(data') = Len(data)
         /\ \A i \in Rows(data) :
               /\ [data'[i] EXCEPT !.CustomerSegment = data[i].CustomerSegment]
                     = data[i]
               /\ data[i].CustomerSegment # "Lost" =>
                     data'[i].CustomerSegment = data[i].CustomerSegment
         /\ Count(data, "Lost") = 0 => data' = data]_vars

(* After a pass that relabeled a row, left a row Lost and met a row of
   another segment. *)
C4_Witness ==
    /\ pc = "reengaged"
    /\ Reactivated(data) # {}
    /\ Count(data, "Lost") > 0
    /\ \E i \in Rows(data) : data[i].RFM_Score > 3

(* C8: a second run of the pipeline on the same input with the same
   evaluation date ends with the table the first run ended with, the
   relabeled rows included. *)
C8_Reproducible ==
    (pc = "render" /\ last # None /\ last[1].today = today) =>
        data = last[1].data

(* A second run on the same date, with relabeled rows. *)
C8_Witness ==
    /\ pc = "render"
    /\ last # None
    /\ last[1].today = today
    /\ Cardinality(Reactivated(data)) >= 2

(* The table as preprocess_data returned it: every segment as its score
   gives it. *)
BeforePass(d) ==
    [i \in Rows(d) |->
        [d[i] EXCEPT !.CustomerSegment = C2_SegmentOfScore(d[i].RFM_Score)]]

Total(counts) == SumOver(DOMAIN counts, counts)

(* C10: in one request the relabeling happens once, after the counts of
   the segment-comparison chart and the means of the score-comparison chart
   are computed and before the counts of the new-distribution chart: the
   first three charts show the segments before re-engagement, the fourth
   the segments after it, and the counts of the fourth and of the second
   chart have the same total, the number of rows. *)
C10_ChartsAroundPass ==
    pc = "render" =>
        LET before == BeforePass(data)
        IN /\ charts.segment_dist = <<ValueSegmentCounts(before)>>
           /\ charts.rfm_segments = <<ValueCounts(CustomerSegmentColumn(before))>>
           /\ charts.segment_scores = <<SegmentScores(before)>>
           /\ charts.new_segment_dist = <<ValueCounts(CustomerSegmentColumn(data))>>
           /\ Total(charts.new_segment_dist[1]) = Total(charts.rfm_segments[1])
           /\ Total(charts.rfm_segments[1]) = Len(data)
           /\ Cardinality({i \in Rows(data) :
                  data[i].CustomerSegment # before[i].CustomerSegment})
                 = C3_RoundFifth(Count(before, "Lost"))

(* A request whose second and fourth chart differ. *)
C10_Witness ==
    /\ pc = "render"
    /\ charts.rfm_segments # charts.new_segment_dist
    /\ Reactivated(data) # {}

=============================================================================
